---- MODULE Spec2Model ----
(* Model of the DisciplrVault Soroban contract (src/src/lib.rs).            *)
(* One action per contract entry point; every entry point runs to the end   *)
(* or traps (a trap rolls back every write of the invocation).              *)
EXTENDS Integers, Sequences, FiniteSets, TLC

(* ---------------------------------------------------------------- bounds *)

\* largest number of successful create_vault invocations in one behaviour
MaxCreates == 2

(* ------------------------------------------------------ program constants *)

\* a u32 is kept as two 16-bit limbs <<high, low>>, value high * Limb + low
Limb == 65536

\* the u32 of a number below Limb
U32(n) == <<0, n>>

\* u32::MAX, 2^32 - 1
U32Max == <<Limb - 1, Limb - 1>>

\* a < b on u32
U32Less(a, b) == a[1] < b[1] \/ (a[1] = b[1] /\ a[2] < b[2])

\* a + 1 on u32 without the overflow check: wraps from U32Max to 0
U32WrappingInc(a) ==
  IF a[2] + 1 < Limb THEN <<a[1], a[2] + 1>>
  ELSE <<(a[1] + 1) % Limb, 0>>

(* ------------------------------------------------------------ input sets *)

Address == {"alice", "bob", "carol", "dave"}

\* identities that can authorize an invocation
Signers == {"alice", "bob"}

Creators == {"alice"}
\* Option<Address>: <<>> is None, <<a>> is Some(a)
Verifiers == {<<>>, <<"bob">>}
SuccessDestinations == {"carol"}
FailureDestinations == {"carol", "dave"}
Amounts == {0, 1}
StartTimes == {0, 2}
EndTimes == {1}
MilestoneHashes == {"h7"}
\* ledger timestamps the environment passes through
LedgerTimes == {0, 1}

\* enum VaultStatus
VaultStatus == {"Active", "Completed", "Failed", "Cancelled"}

\* the creation constraints of the specification (section 4.1); create_vault
\* itself checks none of them
ValidArgs(in) ==
  /\ in.amount > 0
  /\ in.start_timestamp <= in.end_timestamp
  /\ in.success_destination # in.failure_destination

\* the arguments of create_vault: every argument list that breaks at most
\* one of the creation constraints
CreateArgs ==
  {in \in [creator : Creators, amount : Amounts, start_timestamp : StartTimes,
           end_timestamp : EndTimes, milestone_hash : MilestoneHashes,
           verifier : Verifiers, success_destination : SuccessDestinations,
           failure_destination : FailureDestinations] :
     \/ ValidArgs(in)
     \/ in.amount <= 0 /\ in.start_timestamp <= in.end_timestamp
          /\ in.success_destination # in.failure_destination
     \/ in.amount > 0 /\ in.start_timestamp > in.end_timestamp
          /\ in.success_destination # in.failure_destination
     \/ in.amount > 0 /\ in.start_timestamp <= in.end_timestamp
          /\ in.success_destination = in.failure_destination}

\* the ids the model follows: the first ones issued and the last of the u32 range
VaultIds == {U32(i) : i \in 0 .. MaxCreates} \cup {U32Max}

(* ----------------------------------------------------------------- state *)

VARIABLES
  vaults,       \* persistent storage: DataKey::Vault(id) -> ProductivityVault
  nextVaultId,  \* instance storage: DataKey::NextVaultId, <<>> when unset
  custody,      \* token balance held by the contract
  credited,     \* tokens the contract has paid out, per address
  now,          \* ledger timestamp
  issued,       \* the ids create_vault has returned in this behaviour, in order
  lastCall      \* the last invocation: entry point, arguments, outcome, events

vars == <<vaults, nextVaultId, custody, credited, now, issued, lastCall>>

(* --------------------------------------------------------------- helpers *)

\* Option::unwrap_or
unwrap_or(opt, default) == IF opt = <<>> THEN default ELSE opt[1]

\* ProductivityVault with the two destinations stored in each other's field
ProductivityVaultSwapped(in) ==
  [creator             |-> in.creator,
   amount              |-> in.amount,
   start_timestamp     |-> in.start_timestamp,
   end_timestamp       |-> in.end_timestamp,
   milestone_hash      |-> in.milestone_hash,
   verifier            |-> in.verifier,
   success_destination |-> in.failure_destination,
   failure_destination |-> in.success_destination,
   status              |-> "Active"]

\* struct ProductivityVault as create_vault builds it
ProductivityVault(in) ==
  [creator             |-> in.creator,
   amount              |-> in.amount,
   start_timestamp     |-> in.start_timestamp,
   end_timestamp       |-> in.end_timestamp,
   milestone_hash      |-> in.milestone_hash,
   verifier            |-> in.verifier,
   success_destination |-> in.success_destination,
   failure_destination |-> in.failure_destination,
   status              |-> "Active"]

\* a set that keeps the written key only and drops every other record
StorageSetAlone(store, id, vault) == [k \in {id} |-> vault]

\* env.storage().persistent().set(&DataKey::Vault(id), &vault)
StorageSet(store, id, vault) ==
  [k \in (DOMAIN store) \cup {id} |-> IF k = id THEN vault ELSE store[k]]

\* get_vault_state reading the key after the one it was asked for
get_vault_state_next_key(store, vault_id) ==
  IF U32WrappingInc(vault_id) \in DOMAIN store
    THEN <<store[U32WrappingInc(vault_id)]>> ELSE <<>>

\* get_vault_state: env.storage().persistent().get(&DataKey::Vault(vault_id))
get_vault_state(store, vault_id) ==
  IF vault_id \in DOMAIN store THEN <<store[vault_id]>> ELSE <<>>

\* an invocation that returned `ret` after publishing `events`
Returned(op, signer, vault_id, input, ret, events) ==
  [op |-> op, signer |-> signer, vault_id |-> vault_id, input |-> input,
   ret |-> <<ret>>, error |-> "none", events |-> events]

\* an invocation that trapped: nothing it wrote or published persists
Trapped(op, signer, vault_id, input, error) ==
  [op |-> op, signer |-> signer, vault_id |-> vault_id, input |-> input,
   ret |-> <<>>, error |-> error, events |-> <<>>]

NoCall ==
  [op |-> "none", signer |-> "none", vault_id |-> U32(0), input |-> <<>>,
   ret |-> <<>>, error |-> "none", events |-> <<>>]

(* ------------------------------------------------------------------ Init *)

\* a freshly deployed contract: no counter, no record
InitFresh ==
  /\ vaults = <<>>
  /\ nextVaultId = <<>>

\* the contract after U32Max successful create_vault calls with the same
\* valid arguments, restricted to the ids the model follows: the counter
\* holds U32Max and every id below it has its record
InitLate ==
  /\ \E in \in {a \in CreateArgs : ValidArgs(a)} :
       vaults = [id \in VaultIds \ {U32Max} |-> ProductivityVault(in)]
  /\ nextVaultId = <<U32Max>>

\* what both starting points share: no token was ever moved, nothing called yet
InitRest ==
  /\ custody = 0
  /\ credited = [a \in Address |-> 0]
  /\ now = 0
  /\ issued = <<>>
  /\ lastCall = NoCall

Init == (InitFresh \/ InitLate) /\ InitRest

(* --------------------------------------------------------------- actions *)

\* create_vault, lines 42-83
CreateVault ==
  \E signer \in Signers, in \in CreateArgs :
    LET vault    == ProductivityVault(in)
        vault_id == unwrap_or(nextVaultId, U32(0))
        event    == [topic |-> "vault_created", id |-> vault_id, data |-> <<vault>>]
        Commit(next) ==
          /\ vaults' = StorageSet(vaults, vault_id, vault)
          /\ nextVaultId' = <<next>>
          /\ issued' = Append(issued, vault_id)
          /\ lastCall' = Returned("create_vault", signer, vault_id, <<in>>,
                                  vault_id, <<event>>)
        Abort(error) ==
          /\ lastCall' = Trapped("create_vault", signer, vault_id, <<in>>, error)
          /\ UNCHANGED <<vaults, nextVaultId, issued>>
    IN
    /\ Len(issued) < MaxCreates
    /\ IF signer # in.creator
         THEN Abort("Auth")                      \* creator.require_auth()
         ELSE IF vault_id # U32Max
                THEN Commit(U32WrappingInc(vault_id))
                \* vault_id + 1 overflows u32: a build with overflow checks
                \* panics, a build without them wraps to 0
                ELSE \/ Abort("Overflow")
                     \/ Commit(U32WrappingInc(vault_id))
    /\ UNCHANGED <<custody, credited, now>>

\* validate_milestone, lines 86-94
ValidateMilestone ==
  \E signer \in Signers, vault_id \in VaultIds :
    LET event == [topic |-> "milestone_validated", id |-> vault_id, data |-> <<>>]
    IN
    /\ lastCall' = Returned("validate_milestone", signer, vault_id, <<>>,
                            TRUE, <<event>>)
    /\ UNCHANGED <<vaults, nextVaultId, custody, credited, now, issued>>

\* release_funds, lines 97-100
ReleaseFunds ==
  \E signer \in Signers, vault_id \in VaultIds :
    /\ lastCall' = Returned("release_funds", signer, vault_id, <<>>, TRUE, <<>>)
    /\ UNCHANGED <<vaults, nextVaultId, custody, credited, now, issued>>

\* redirect_funds, lines 103-106
RedirectFunds ==
  \E signer \in Signers, vault_id \in VaultIds :
    /\ lastCall' = Returned("redirect_funds", signer, vault_id, <<>>, TRUE, <<>>)
    /\ UNCHANGED <<vaults, nextVaultId, custody, credited, now, issued>>

\* cancel_vault, lines 109-112
CancelVault ==
  \E signer \in Signers, vault_id \in VaultIds :
    /\ lastCall' = Returned("cancel_vault", signer, vault_id, <<>>, TRUE, <<>>)
    /\ UNCHANGED <<vaults, nextVaultId, custody, credited, now, issued>>

\* get_vault_state, lines 115-117
GetVaultState ==
  \E signer \in Signers, vault_id \in VaultIds :
    /\ lastCall' = Returned("get_vault_state", signer, vault_id, <<>>,
                            get_vault_state(vaults, vault_id), <<>>)
    /\ UNCHANGED <<vaults, nextVaultId, custody, credited, now, issued>>

\* the ledger closes and the timestamp advances between invocations
Tick ==
  /\ \E t \in LedgerTimes : t > now /\ now' = t
  /\ UNCHANGED <<vaults, nextVaultId, custody, credited, issued, lastCall>>

Next ==
  \/ CreateVault
  \/ ValidateMilestone
  \/ ReleaseFunds
  \/ RedirectFunds
  \/ CancelVault
  \/ GetVaultState
  \/ Tick

Spec == Init /\ [][Next]_vars

\* the contract at deployment
InitDeployed == InitFresh /\ InitRest

\* the behaviours that start at deployment
SpecFresh == InitDeployed /\ [][Next]_vars

(* ------------------------------------------------- vocabulary of the claims *)

ResolvingOps == {"validate_milestone", "release_funds", "redirect_funds", "cancel_vault"}

Terminal(v) == v.status \in {"Completed", "Failed", "Cancelled"}

\* the address a terminal vault pays out to
Payee(v) ==
  CASE v.status = "Completed" -> v.success_destination
    [] v.status = "Failed"    -> v.failure_destination
    [] OTHER                  -> v.creator

\* this step is an invocation of entry point op
Called(op) == lastCall' # lastCall /\ lastCall'.op = op

\* this step is an invocation of op on a stored vault whose status is Active
CalledOnActive(op) ==
  /\ Called(op)
  /\ lastCall'.vault_id \in DOMAIN vaults
  /\ vaults[lastCall'.vault_id].status = "Active"

\* this step leaves the vault it addresses Active and moves no funds
StaysActive ==
  /\ lastCall'.vault_id \in DOMAIN vaults'
  /\ vaults'[lastCall'.vault_id].status = "Active"
  /\ custody' = custody
  /\ credited' = credited

\* this step takes the addressed vault to `status` and pays its amount to `to`
ResolvesTo(status, to) ==
  LET v == vaults[lastCall'.vault_id] IN
  /\ lastCall'.ret = <<TRUE>>
  /\ lastCall'.vault_id \in DOMAIN vaults'
  /\ vaults'[lastCall'.vault_id].status = status
  /\ custody' = custody - v.amount
  /\ credited' = [credited EXCEPT ![to] = @ + v.amount]

RECURSIVE SumAmounts(_, _)
\* sum of amount over the vaults of store whose id is in ids
SumAmounts(store, ids) ==
  IF ids = {} THEN 0
  ELSE LET id == CHOOSE x \in ids : TRUE
       IN store[id].amount + SumAmounts(store, ids \ {id})

(* ------------------------------------------------------------------ claims *)

\* C1 (as claimed): a vault whose status is Completed, Failed or Cancelled
\* keeps its status and the funds stay where they are, and of two resolving
\* calls made one after the other on the same stored vault, the second fails
\* with InvalidState when the first succeeded.
C1_ResolveAtMostOnce ==
  [][ /\ \A id \in DOMAIN vaults :
           Terminal(vaults[id]) =>
             /\ id \in DOMAIN vaults'
             /\ vaults'[id].status = vaults[id].status
      /\ ( /\ lastCall.op \in ResolvingOps
           /\ lastCall.ret = <<TRUE>>
           /\ lastCall.vault_id \in DOMAIN vaults
           /\ lastCall' # lastCall
           /\ lastCall'.op \in ResolvingOps
           /\ lastCall'.vault_id = lastCall.vault_id )
         => lastCall'.error = "InvalidState" ]_vars

\* C2 (as claimed): the balance in custody is the sum of amount over the
\* Active vaults, and every address has been credited exactly the amounts of
\* the terminal vaults that pay out to it.
C2_FundsMoveOnce ==
  /\ custody = SumAmounts(vaults, {id \in DOMAIN vaults : vaults[id].status = "Active"})
  /\ \A a \in Address :
       credited[a] = SumAmounts(vaults, {id \in DOMAIN vaults :
                                  Terminal(vaults[id]) /\ Payee(vaults[id]) = a})

\* C3: when create_vault returns an id for valid arguments, get_vault_state
\* of that id returns a record whose eight fields are the arguments and
\* whose status is Active.
C3_CreateThenGet ==
  [][ ( /\ Called("create_vault")
        /\ lastCall'.ret # <<>>
        /\ ValidArgs(lastCall'.input[1]) )
      => LET in  == lastCall'.input[1]
             got == get_vault_state(vaults', lastCall'.ret[1])
         IN /\ got # <<>>
            /\ got[1].creator = in.creator
            /\ got[1].amount = in.amount
            /\ got[1].start_timestamp = in.start_timestamp
            /\ got[1].end_timestamp = in.end_timestamp
            /\ got[1].milestone_hash = in.milestone_hash
            /\ got[1].verifier = in.verifier
            /\ got[1].success_destination = in.success_destination
            /\ got[1].failure_destination = in.failure_destination
            /\ got[1].status = "Active" ]_vars

\* C3 witness: create_vault has just returned an id for valid arguments that
\* name a verifier, and the record is stored under that id
C3_Witness ==
  /\ lastCall.op = "create_vault"
  /\ lastCall.ret # <<>>
  /\ ValidArgs(lastCall.input[1])
  /\ lastCall.input[1].verifier # <<>>
  /\ get_vault_state(vaults, lastCall.ret[1]) # <<>>

\* C4 (as claimed): the ids create_vault returns are strictly increasing, so
\* none is returned twice.
C4_IdsStrictlyIncreasing ==
  \A i, j \in 1 .. Len(issued) : i < j => U32Less(issued[i], issued[j])

\* C5 (as claimed): validate_milestone on an Active vault fails with
\* AuthorizationDenied when the caller is not the stored verifier (also when
\* there is none) and with WindowClosed when the verifier calls at or after
\* end_timestamp; the vault stays Active.
C5_ValidateRejects ==
  [][ CalledOnActive("validate_milestone")
      => LET v == vaults[lastCall'.vault_id] IN
         /\ v.verifier # <<lastCall'.signer>>
              => lastCall'.error = "AuthorizationDenied" /\ StaysActive
         /\ (v.verifier = <<lastCall'.signer>> /\ now >= v.end_timestamp)
              => lastCall'.error = "WindowClosed" /\ StaysActive ]_vars

\* C6 (as claimed): validate_milestone by the stored verifier on an Active
\* vault before end_timestamp sets the status to Completed and credits the
\* amount from custody to success_destination.
C6_ValidateCompletes ==
  [][ ( /\ CalledOnActive("validate_milestone")
        /\ vaults[lastCall'.vault_id].verifier = <<lastCall'.signer>>
        /\ now < vaults[lastCall'.vault_id].end_timestamp )
      => ResolvesTo("Completed", vaults[lastCall'.vault_id].success_destination) ]_vars

\* C7 (as claimed): redirect_funds on an Active vault fails with
\* WindowStillOpen and leaves it Active before end_timestamp; at or after
\* end_timestamp it sets the status to Failed and credits failure_destination.
C7_RedirectByDeadline ==
  [][ CalledOnActive("redirect_funds")
      => LET v == vaults[lastCall'.vault_id] IN
         IF now < v.end_timestamp
           THEN lastCall'.error = "WindowStillOpen" /\ StaysActive
           ELSE ResolvesTo("Failed", v.failure_destination) ]_vars

\* C8 (as claimed): cancel_vault by the creator of an Active vault sets the
\* status to Cancelled and credits the amount back to the creator; by anyone
\* else it fails with AuthorizationDenied and changes neither status nor funds.
C8_CancelByCreator ==
  [][ CalledOnActive("cancel_vault")
      => LET v == vaults[lastCall'.vault_id] IN
         IF lastCall'.signer = v.creator
           THEN ResolvesTo("Cancelled", v.creator)
           ELSE lastCall'.error = "AuthorizationDenied" /\ StaysActive ]_vars

\* C9 (as claimed): release_funds on an Active vault credits
\* success_destination and sets the status to Completed; on a vault that is
\* already terminal it fails with InvalidState and moves no funds.
C9_ReleaseRequiresActive ==
  [][ ( Called("release_funds") /\ lastCall'.vault_id \in DOMAIN vaults )
      => LET v == vaults[lastCall'.vault_id] IN
         IF v.status = "Active"
           THEN ResolvesTo("Completed", v.success_destination)
           ELSE /\ lastCall'.error = "InvalidState"
                /\ custody' = custody
                /\ credited' = credited ]_vars

\* C10 (as claimed): create_vault with amount <= 0, start_timestamp >
\* end_timestamp or success_destination = failure_destination fails with
\* InvalidArgument, writes no record and leaves the NextVaultId counter alone.
C10_CreateRejectsInvalid ==
  [][ ( Called("create_vault") /\ ~ ValidArgs(lastCall'.input[1]) )
      => /\ lastCall'.error = "InvalidArgument"
         /\ vaults' = vaults
         /\ nextVaultId' = nextVaultId ]_vars

\* the token balance of an account: an account holds what the contract paid
\* it and nothing else
TokenBalance(a) == credited[a]

\* the token would reject the debit of the amount from the creator
DebitFails(in) == in.amount > TokenBalance(in.creator)

\* C11 (as claimed): a create_vault call whose creator has not authorized it,
\* or whose creator cannot pay the amount, fails: it returns no id, writes no
\* record, leaves the NextVaultId counter alone and publishes no event.
C11_CreateAtomicOnDebitFailure ==
  [][ ( /\ Called("create_vault")
        /\ \/ lastCall'.signer # lastCall'.input[1].creator
           \/ DebitFails(lastCall'.input[1]) )
      => /\ lastCall'.ret = <<>>
         /\ lastCall'.events = <<>>
         /\ vaults' = vaults
         /\ nextVaultId' = nextVaultId ]_vars

\* C12: get_vault_state changes no record, not the counter and no balance; it
\* returns None for an id create_vault never returned and the stored record
\* for an id it returned.
C12_GetIsPureRead ==
  [][ Called("get_vault_state")
      => LET id == lastCall'.vault_id IN
         /\ vaults' = vaults
         /\ nextVaultId' = nextVaultId
         /\ custody' = custody
         /\ credited' = credited
         /\ IF \E i \in 1 .. Len(issued) : issued[i] = id
              THEN lastCall'.ret = << <<vaults[id]>> >>
              ELSE lastCall'.ret = << <<>> >> ]_vars

\* C12 witness: get_vault_state has just returned the record of an issued id
C12_Witness ==
  /\ lastCall.op = "get_vault_state"
  /\ \E i \in 1 .. Len(issued) : issued[i] = lastCall.vault_id
  /\ lastCall.ret = << <<vaults[lastCall.vault_id]>> >>

\* C13 (as claimed): a resolving call on an id that has no record fails with
\* NotFound, creates no record, publishes no event and moves no funds.
C13_UnknownIdNotFound ==
  [][ ( /\ lastCall' # lastCall
        /\ lastCall'.op \in ResolvingOps
        /\ lastCall'.vault_id \notin DOMAIN vaults )
      => /\ lastCall'.error = "NotFound"
         /\ lastCall'.events = <<>>
         /\ vaults' = vaults
         /\ custody' = custody
         /\ credited' = credited ]_vars

\* the token would reject paying the amount of vault v out of custody
TransferFails(v) == v.amount > custody

\* C14 (as claimed): a resolving call on an Active vault whose transfer fails
\* itself fails with TransferFailed and leaves the vault Active, and no vault
\* is terminal while its amount has not been paid to its payee.
C14_TransferThenCommit ==
  [][ /\ ( /\ lastCall' # lastCall
           /\ lastCall'.op \in ResolvingOps
           /\ lastCall'.vault_id \in DOMAIN vaults
           /\ vaults[lastCall'.vault_id].status = "Active"
           /\ TransferFails(vaults[lastCall'.vault_id]) )
         => lastCall'.error = "TransferFailed" /\ StaysActive
      /\ \A id \in DOMAIN vaults' :
           Terminal(vaults'[id])
             => credited'[Payee(vaults'[id])] >= vaults'[id].amount ]_vars

\* C15 (as claimed): a milestone_validated event for an id is published only
\* by a validate_milestone call that returns true and leaves that vault
\* Completed; a successful create_vault publishes exactly one vault_created
\* event with the id and the stored record, and no other call publishes one.
C15_EventsMatchOutcome ==
  /\ \A i \in 1 .. Len(lastCall.events) :
       lastCall.events[i].topic = "milestone_validated"
         => /\ lastCall.op = "validate_milestone"
            /\ lastCall.ret = <<TRUE>>
            /\ lastCall.events[i].id \in DOMAIN vaults
            /\ vaults[lastCall.events[i].id].status = "Completed"
  /\ IF lastCall.op = "create_vault" /\ lastCall.ret # <<>>
       THEN lastCall.events =
              <<[topic |-> "vault_created", id |-> lastCall.ret[1],
                 data |-> <<vaults[lastCall.ret[1]]>>]>>
       ELSE \A i \in 1 .. Len(lastCall.events) :
              lastCall.events[i].topic # "vault_created"

\* the NextVaultId counter as create_vault reads it
Counter == unwrap_or(nextVaultId, U32(0))

\* C16 (as claimed): the counter reads 0 before the first create_vault, goes
\* up by exactly one on each create_vault that returns an id, is changed by
\* nothing else, and a record exists for an id exactly when the id is below
\* the counter.
C16_CounterCountsRecords ==
  [][ /\ \A id \in VaultIds : id \in DOMAIN vaults <=> U32Less(id, Counter)
      /\ \A id \in VaultIds : id \in DOMAIN vaults' <=> U32Less(id, Counter')
      /\ IF Called("create_vault") /\ lastCall'.ret # <<>>
           THEN Counter # U32Max /\ Counter' = U32WrappingInc(Counter)
           ELSE Counter' = Counter ]_vars

\* C17 (as claimed): no step changes the creator, amount, start_timestamp,
\* end_timestamp, milestone_hash, verifier, success_destination or
\* failure_destination of a stored vault, and a call leaves the record of
\* every id other than the one it addresses as it was.
C17_FieldsImmutable ==
  [][ \A id \in DOMAIN vaults :
        /\ id \in DOMAIN vaults'
        /\ vaults'[id].creator = vaults[id].creator
        /\ vaults'[id].amount = vaults[id].amount
        /\ vaults'[id].start_timestamp = vaults[id].start_timestamp
        /\ vaults'[id].end_timestamp = vaults[id].end_timestamp
        /\ vaults'[id].milestone_hash = vaults[id].milestone_hash
        /\ vaults'[id].verifier = vaults[id].verifier
        /\ vaults'[id].success_destination = vaults[id].success_destination
        /\ vaults'[id].failure_destination = vaults[id].failure_destination
        /\ id # lastCall'.vault_id => vaults'[id] = vaults[id] ]_vars

\* C18: an id for which get_vault_state returns a record still has a record
\* after every step.
C18_RecordNeverDeleted ==
  [][ \A id \in VaultIds :
        get_vault_state(vaults, id) # <<>> => get_vault_state(vaults', id) # <<>> ]_vars

\* C18 witness: create_vault has just stored a record and the record of
\* another id, stored earlier, is still there
C18_Witness ==
  /\ lastCall.op = "create_vault"
  /\ lastCall.ret # <<>>
  /\ \E id \in VaultIds :
       id # lastCall.ret[1] /\ get_vault_state(vaults, id) # <<>>

\* C19 (as claimed): a create_vault call that returns an id stores its record
\* under an id that had none, and leaves the counter above where it was.
C19_NoOverwriteNoWrap ==
  [][ ( Called("create_vault") /\ lastCall'.ret # <<>> )
      => /\ lastCall'.ret[1] \notin DOMAIN vaults
         /\ U32Less(Counter, Counter') ]_vars

\* calls and the ledger clock are scheduled fairly: redirect_funds keeps
\* being called on every id, and time keeps advancing while it can
SpecFair ==
  /\ InitDeployed
  /\ [][Next]_vars
  /\ WF_vars(Tick)
  /\ \A id \in VaultIds : WF_vars(RedirectFunds /\ lastCall'.vault_id = id)

\* C20 (as claimed): under fair scheduling every stored vault eventually has
\* status Completed, Failed or Cancelled.
C20_EveryVaultResolves ==
  \A id \in VaultIds :
    (id \in DOMAIN vaults) ~> (id \in DOMAIN vaults /\ Terminal(vaults[id]))

====
